---------------------------- MODULE Spec2Model ----------------------------
(***************************************************************************)
(* Model of scrapeflow's phase-chain executor (src/scrapeflow/executor.py) *)
(* and of the status store it persists to (src/scrapeflow/status.py).      *)
(*                                                                         *)
(* One batch call (execute_async) validates the task keys, creates the     *)
(* directory, opens the session and schedules one chain                    *)
(* (_execute_single_chain_async) per task.  Chains are asyncio tasks: the  *)
(* code between two awaits is one atomic step.  A chain suspends while it  *)
(* waits for the semaphore and while it awaits wait_for(executor(...)).    *)
(***************************************************************************)
EXTENDS Integers, Sequences, FiniteSets, TLC

\* ------------------------------------------------------------- bounds
\* Number of distinct valid task keys (and so of chains in one batch).
MaxTasks == 2
\* Largest max_parallelism a batch is called with.
MaxParallelism == 2
\* Number of batch calls in one behaviour.
MaxRuns == 3

\* ------------------------------------------------------------- values
\* Python's None (JSON null).
None == "None"

EmptyDict == [x \in {} |-> None]

Has(d, f) == f \in DOMAIN d

Put(d, f, v) == [x \in (DOMAIN d) \cup {f} |-> IF x = f THEN v ELSE d[x]]

Del(d, f) == [x \in (DOMAIN d) \ {f} |-> d[x]]

\* Keys are strings; a string is modelled as its sequence of characters.
KeyPool == << <<"a">>, <<"b">>, <<"c">>, <<"d">> >>

Keys == {KeyPool[i] : i \in 1..MaxTasks}

BadKeys == { <<".">>, <<".", ".">>, <<".", ".", "/", "e">> }

\* The chain: the executors, by name, in the order they run.
PhasePool == <<"fetch", "parse">>

NumPhases == Len(PhasePool)

Phases == 1..NumPhases

\* executor.__name__, f"{task}_status", f"{task}_last_run"
Name(p) == PhasePool[p]

StatusKey(p) == PhasePool[p] \o "_status"

LastRunKey(p) == PhasePool[p] \o "_last_run"

\* The results a phase body can return (JSON values, none of them null).
Results == {"r1", "r2"}

\* Exception classes a phase attempt can end with that the chain records.
RecognizedKinds == {"TimeoutError", "RuntimeError"}

ErrorStatus(kind) == "ERROR " \o kind \o "::"

\* Task parameter mappings.
NoParams == EmptyDict

UrlParams == [url |-> "u"]

\* A force directive: force_executors is "all" or a list of executors.
NoForce == [all |-> FALSE, names |-> {}]

ForceAll == [all |-> TRUE, names |-> {}]

ForceOnly(p) == [all |-> FALSE, names |-> {Name(p)}]

ForceChoices == {NoForce, ForceAll} \cup {ForceOnly(p) : p \in Phases}

\* A task set: a sequence of (key, params) entries.  A bare list of keys
\* carries empty params and may repeat a key; a dict has distinct keys.
Task(k, prm) == [key |-> k, params |-> prm]

AllKeys(ts) == [i \in 1..Len(ts) |-> ts[i].key]

\* The valid keys in a fixed order, and its non-empty prefixes.
KeyList == [i \in 1..MaxTasks |-> KeyPool[i]]

Prefixes == {SubSeq(KeyList, 1, n) : n \in 1..MaxTasks}

\* Key sequences the entry point has to reject: a key repeated, an invalid
\* key alone, an invalid key after a valid one.
RejectedKeySeqs ==
    {<<k, k>> : k \in Keys}
        \cup {<<k>> : k \in BadKeys}
        \cup {<<KeyPool[1], k>> : k \in BadKeys}

\* tasks given as a bare list of keys: {key: {} for key in tasks}
ListTaskSets ==
    {[i \in 1..Len(ks) |-> Task(ks[i], NoParams)] : ks \in Prefixes \cup RejectedKeySeqs}

\* tasks given as a dict key -> params (the keys of a dict are distinct)
DictTaskSets == {[i \in 1..Len(ks) |-> Task(ks[i], UrlParams)] : ks \in Prefixes}

TaskSets == ListTaskSets \cup DictTaskSets

\* ------------------------------------------------------------- pure code
\* filename.count("/")
Count(s, ch) == Cardinality({i \in 1..Len(s) : s[i] = ch})

\* The path separator is not looked for.
IsValidFilenameNoSlash(filename) == filename \notin {<<".">>, <<".", ".">>}

\* _is_valid_filename
IsValidFilename(filename) ==
    /\ filename \notin {<<".">>, <<".", ".">>}
    /\ ~(Count(filename, "/") > 0)

\* all_keys.count(key)
KeyCount(all_keys, key) == Cardinality({i \in 1..Len(all_keys) : all_keys[i] = key})

\* len(set(all_keys)) != len(all_keys)
HasDuplicates(all_keys) ==
    Cardinality({all_keys[i] : i \in 1..Len(all_keys)}) # Len(all_keys)

\* [key for key in all_keys if all_keys.count(key) > 1]
DuplicateKeys(all_keys) ==
    LET dup(k) == KeyCount(all_keys, k) > 1 IN SelectSeq(all_keys, dup)

\* the first key the loop over all_keys rejects
FirstInvalid(all_keys) ==
    LET bad == {i \in 1..Len(all_keys) : ~IsValidFilename(all_keys[i])}
    IN  all_keys[CHOOSE i \in bad : \A j \in bad : i <= j]

NoError == [msg |-> "", keys |-> <<>>]

\* The ValueError execute_async raises for the keys, NoError if it raises none.
ValidationError(all_keys) ==
    IF HasDuplicates(all_keys)
    THEN [msg |-> "Duplicate keys", keys |-> DuplicateKeys(all_keys)]
    ELSE IF \E i \in 1..Len(all_keys) : ~IsValidFilename(all_keys[i])
         THEN [msg |-> "Invalid key", keys |-> <<FirstInvalid(all_keys)>>]
         ELSE NoError

\* Any force directive forces every phase.
previous_execution_any(phase, frc, task_status) ==
    IF ~Has(task_status, Name(phase))
    THEN None
    ELSE IF frc.names # {} \/ frc.all THEN None ELSE task_status[Name(phase)]

\* A forced phase forces the phases that follow it in the chain.
previous_execution_downstream(phase, frc, task_status) ==
    IF ~Has(task_status, Name(phase))
    THEN None
    ELSE IF frc.all \/ \E q \in 1..phase : Name(q) \in frc.names
         THEN None
         ELSE task_status[Name(phase)]

\* previous_execution: None when the phase has to run, else the stored result.
previous_execution(phase, frc, task_status) ==
    IF ~Has(task_status, Name(phase))
    THEN None
    ELSE LET forced_executor_names == IF ~frc.all THEN frc.names ELSE {}
         IN  IF Name(phase) \in forced_executor_names \/ frc.all
             THEN None
             ELSE task_status[Name(phase)]

\* <p>_last_run is stamped whether the phase ran or was skipped.
OnCompletedStamp(status, p, response_status, did_run, now) ==
    Put(Put(Put(status, Name(p), response_status), StatusKey(p), "SUCCESS"),
        LastRunKey(p), now)

\* The status is set without the result being stored.
OnCompletedNoResult(status, p, response_status, did_run, now) ==
    LET s2 == Put(status, StatusKey(p), "SUCCESS")
    IN  IF did_run THEN Put(s2, LastRunKey(p), now) ELSE s2

\* Lines 120-127: the phase returned (response_status, did_run).
OnCompleted(status, p, response_status, did_run, now) ==
    LET s1 == Put(status, Name(p), response_status)
        s2 == Put(s1, StatusKey(p), "SUCCESS")
    IN  IF did_run THEN Put(s2, LastRunKey(p), now) ELSE s2

\* The stale result of the failed phase is left in the record.
OnRecognizedKeep(status, p, kind, now) ==
    Put(Put(status, StatusKey(p), ErrorStatus(kind)), LastRunKey(p), now)

\* The failure of a phase also discards what the record holds of the phases
\* after it.
OnRecognizedDropLater(status, p, kind, now) ==
    LET s1 == Put(status, StatusKey(p), ErrorStatus(kind))
        s2 == Put(s1, LastRunKey(p), now)
        s3 == IF Has(s2, Name(p)) THEN Del(s2, Name(p)) ELSE s2
        later == UNION {{Name(q), StatusKey(q), LastRunKey(q)} : q \in (p + 1)..NumPhases}
    IN  [f \in (DOMAIN s3) \ later |-> s3[f]]

\* Lines 158-170: a recognized exception of class kind ended the attempt.
OnRecognized(status, p, kind, now) ==
    LET s1 == Put(status, StatusKey(p), ErrorStatus(kind))
        s2 == Put(s1, LastRunKey(p), now)
    IN  IF Has(s2, Name(p)) THEN Del(s2, Name(p)) ELSE s2

\* ------------------------------------------------------------- state
VARIABLES
    store,        \* the status files of the directory: key -> status record
    dirExists,    \* the target directory exists
    sessionOpen,  \* the aiohttp.ClientSession of the running call is open
    batch,        \* where the execute_async call stands
    tasks,        \* the task set of the current call
    force,        \* context.force_executors
    ceiling,      \* max_parallelism given to Semaphore()
    permits,      \* the semaphore's value
    clock,        \* number of calls so far; str(datetime.now()) reads it
    pc,           \* each chain's position
    idx,          \* each chain's current phase
    mem,          \* each chain's local `status` dict
    ret,          \* the list execute_async returned
    err,          \* the ValueError execute_async raised
    invoked,      \* (key, phase) whose body this call has invoked
    succeeded,    \* (key, phase) whose body returned a result in this call
    failures,     \* (key, phase) that ended in a recognized failure in this call
    ops,          \* the kinds of I/O this call has done
    finished,     \* the keys of the chains that returned, in completion order
    writes,       \* how often each chain of this call has written its file
    store0        \* the store as it was when this call started

vars == <<store, dirExists, sessionOpen, batch, tasks, force, ceiling, permits,
          clock, pc, idx, mem, ret, err, invoked, succeeded, failures, ops,
          finished, writes, store0>>

ChainIds == 1..MaxTasks

\* The chains of the current call: one per entry of the task set.
Chains == 1..Len(tasks)

KeyOf(c) == tasks[c].key

\* The params of the call replace those of the stored record.
LoadStatusNewParams(st, key, params) ==
    IF key \in DOMAIN st /\ st[key] # EmptyDict
    THEN Put(st[key], "params", params)
    ELSE [params |-> params]

\* read_one_status(context.dir, key) or {"params": params}.  The values of a
\* record are JSON values, so json.loads(json.dumps(status)) is the record.
LoadStatus(st, key, params) ==
    IF key \in DOMAIN st /\ st[key] # EmptyDict
    THEN st[key]
    ELSE [params |-> params]

\* The file name does not depend on the key: one file for every task.
WriteStatusShared(st, key, status) == [k \in (DOMAIN st) \cup Keys |-> status]

\* write_one_status: the file of key is replaced by the record.
WriteStatus(st, key, status) ==
    [k \in (DOMAIN st) \cup {key} |-> IF k = key THEN status ELSE st[k]]

\* str(datetime.now())
Now == clock

Terminal == {"idle", "done", "raised", "cancelled"}

Init ==
    /\ store = EmptyDict
    /\ dirExists = FALSE
    /\ sessionOpen = FALSE
    /\ batch = "none"
    /\ tasks = <<>>
    /\ force = NoForce
    /\ ceiling = 0
    /\ permits = 0
    /\ clock = 0
    /\ pc = [c \in ChainIds |-> "idle"]
    /\ idx = [c \in ChainIds |-> 0]
    /\ mem = [c \in ChainIds |-> EmptyDict]
    /\ ret = <<>>
    /\ err = NoError
    /\ invoked = {}
    /\ succeeded = {}
    /\ failures = {}
    /\ ops = {}
    /\ finished = <<>>
    /\ writes = [c \in ChainIds |-> 0]
    /\ store0 = EmptyDict

\* A semaphore created one permit too large.
InitialPermitsOffByOne(par) == par + 1

\* Semaphore(max_parallelism)
InitialPermits(par) == par

\* execute_async up to its first await: validation, mkdir, the session, the
\* context with its semaphore, and one scheduled chain per task.
StartBatch(ts, frc, par) ==
    /\ batch # "running"
    /\ \A c \in ChainIds : pc[c] \in Terminal
    /\ clock' = clock + 1
    /\ store0' = store
    /\ invoked' = {}
    /\ succeeded' = {}
    /\ failures' = {}
    /\ finished' = <<>>
    /\ writes' = [c \in ChainIds |-> 0]
    /\ ret' = <<>>
    /\ err' = ValidationError(AllKeys(ts))
    /\ IF ValidationError(AllKeys(ts)) # NoError
       THEN /\ batch' = "invalid"
            /\ ops' = {}
            /\ tasks' = ts
            /\ pc' = [c \in ChainIds |-> "idle"]
            /\ idx' = [c \in ChainIds |-> 0]
            /\ mem' = [c \in ChainIds |-> EmptyDict]
            /\ UNCHANGED <<store, dirExists, sessionOpen, force, ceiling, permits>>
       ELSE /\ batch' = "running"
            /\ ops' = {"mkdir", "session"}
            /\ dirExists' = TRUE
            /\ sessionOpen' = TRUE
            /\ tasks' = ts
            /\ force' = frc
            /\ ceiling' = par
            /\ permits' = InitialPermits(par)
            /\ pc' = [c \in ChainIds |-> IF c <= Len(ts) THEN "gate" ELSE "idle"]
            /\ idx' = [c \in ChainIds |-> 0]
            /\ mem' = [c \in ChainIds |-> EmptyDict]
            /\ UNCHANGED store

\* async with context.semaphore; then the status is loaded and the chain
\* awaits wait_for(executor(...)) of its first phase.
Acquire(c) ==
    /\ c \in Chains
    /\ pc[c] = "gate"
    /\ permits > 0
    /\ permits' = permits - 1
    /\ mem' = [mem EXCEPT ![c] = LoadStatus(store, KeyOf(c), tasks[c].params)]
    /\ idx' = [idx EXCEPT ![c] = 1]
    /\ pc' = [pc EXCEPT ![c] = "await"]
    /\ ops' = ops \cup {"acquire", "read"}
    /\ UNCHANGED <<store, dirExists, sessionOpen, batch, tasks, force, ceiling,
                   clock, ret, err, invoked, succeeded, failures, finished,
                   writes, store0>>

\* The permit is not given back when the chain leaves by raising.
LeaveKeepingPermit(c, status, how) ==
    /\ store' = WriteStatus(store, KeyOf(c), status)
    /\ permits' = IF how = "raised" THEN permits ELSE permits + 1
    /\ mem' = [mem EXCEPT ![c] = EmptyDict]
    /\ idx' = [idx EXCEPT ![c] = 0]
    /\ pc' = [pc EXCEPT ![c] = how]
    /\ ops' = ops \cup {"write"}
    /\ writes' = [writes EXCEPT ![c] = writes[c] + 1]
    /\ finished' = IF how = "done" THEN Append(finished, KeyOf(c)) ELSE finished

\* Line 172-173 and the exit of the async with: write, release, leave.
Leave(c, status, how) ==
    /\ store' = WriteStatus(store, KeyOf(c), status)
    /\ permits' = permits + 1
    /\ mem' = [mem EXCEPT ![c] = EmptyDict]
    /\ idx' = [idx EXCEPT ![c] = 0]
    /\ pc' = [pc EXCEPT ![c] = how]
    /\ ops' = ops \cup {"write"}
    /\ writes' = [writes EXCEPT ![c] = writes[c] + 1]
    /\ finished' = IF how = "done" THEN Append(finished, KeyOf(c)) ELSE finished

\* The record is written after every phase.
ContinuePersist(c, status) ==
    IF idx[c] = NumPhases
    THEN Leave(c, status, "done")
    ELSE /\ idx' = [idx EXCEPT ![c] = idx[c] + 1]
         /\ mem' = [mem EXCEPT ![c] = status]
         /\ pc' = [pc EXCEPT ![c] = "await"]
         /\ store' = WriteStatus(store, KeyOf(c), status)
         /\ ops' = ops \cup {"write"}
         /\ writes' = [writes EXCEPT ![c] = writes[c] + 1]
         /\ UNCHANGED <<permits, finished>>

\* After a phase that completed: the next phase, or the end of the loop.
Continue(c, status) ==
    IF idx[c] = NumPhases
    THEN Leave(c, status, "done")
    ELSE /\ idx' = [idx EXCEPT ![c] = idx[c] + 1]
         /\ mem' = [mem EXCEPT ![c] = status]
         /\ pc' = [pc EXCEPT ![c] = "await"]
         /\ UNCHANGED <<store, permits, ops, finished, writes>>

\* The taskify wrapper runs: it returns the stored result (the phase is
\* skipped) or it calls the phase body, which suspends.
Enter(c) ==
    /\ c \in Chains
    /\ pc[c] = "await"
    /\ LET prev_run == previous_execution(idx[c], force, mem[c])
       IN  IF prev_run # None
           THEN /\ Continue(c, OnCompleted(mem[c], idx[c], prev_run, FALSE, Now))
                /\ UNCHANGED invoked
           ELSE /\ pc' = [pc EXCEPT ![c] = "body"]
                /\ invoked' = invoked \cup {<<KeyOf(c), idx[c]>>}
                /\ ops' = ops \cup {"body"}
                /\ UNCHANGED <<store, permits, idx, mem, finished, writes>>
    /\ UNCHANGED <<dirExists, sessionOpen, batch, tasks, force, ceiling, clock,
                   ret, err, succeeded, failures, store0>>

\* The phase body returns its result within the timeout.
BodySuccess(c, r) ==
    /\ c \in Chains
    /\ pc[c] = "body"
    /\ Continue(c, OnCompleted(mem[c], idx[c], r, TRUE, Now))
    /\ succeeded' = succeeded \cup {<<KeyOf(c), idx[c]>>}
    /\ UNCHANGED <<dirExists, sessionOpen, batch, tasks, force, ceiling, clock,
                   ret, err, invoked, failures, store0>>

\* The failure is recorded and the chain goes on to the next phase.
BodyRecognizedGoOn(c, kind) ==
    /\ c \in Chains
    /\ pc[c] = "body"
    /\ Continue(c, OnRecognized(mem[c], idx[c], kind, Now))
    /\ failures' = failures \cup {<<KeyOf(c), idx[c]>>}
    /\ UNCHANGED <<dirExists, sessionOpen, batch, tasks, force, ceiling, clock,
                   ret, err, invoked, succeeded, store0>>

\* The attempt ends with a recognized exception (wait_for's TimeoutError, or
\* an exception of the recognized classes raised by the body).
BodyRecognized(c, kind) ==
    /\ c \in Chains
    /\ pc[c] = "body"
    /\ Leave(c, OnRecognized(mem[c], idx[c], kind, Now), "done")
    /\ failures' = failures \cup {<<KeyOf(c), idx[c]>>}
    /\ UNCHANGED <<dirExists, sessionOpen, batch, tasks, force, ceiling, clock,
                   ret, err, invoked, succeeded, store0>>

\* The failure leaves the chain without the record being written.
BodyUnrecognizedNoWrite(c) ==
    /\ c \in Chains
    /\ pc[c] = "body"
    /\ permits' = permits + 1
    /\ mem' = [mem EXCEPT ![c] = EmptyDict]
    /\ idx' = [idx EXCEPT ![c] = 0]
    /\ pc' = [pc EXCEPT ![c] = "raised"]
    /\ UNCHANGED <<store, ops, finished, writes>>
    /\ UNCHANGED <<dirExists, sessionOpen, batch, tasks, force, ceiling, clock,
                   ret, err, invoked, succeeded, failures, store0>>

\* The body raises any other Exception: lines 154-156.
BodyUnrecognized(c) ==
    /\ c \in Chains
    /\ pc[c] = "body"
    /\ Leave(c, mem[c], "raised")
    /\ UNCHANGED <<dirExists, sessionOpen, batch, tasks, force, ceiling, clock,
                   ret, err, invoked, succeeded, failures, store0>>

\* The call returns the keys collected so far as soon as one chain is done.
BatchReturnEarly ==
    /\ batch = "running"
    /\ \E c \in Chains : pc[c] = "done"
    /\ batch' = "returned"
    /\ ret' = SelectSeq(AllKeys(tasks), LAMBDA k : \E c \in Chains : KeyOf(c) = k /\ pc[c] = "done")
    /\ sessionOpen' = FALSE
    /\ UNCHANGED <<store, dirExists, tasks, force, ceiling, permits, clock, pc,
                   idx, mem, err, invoked, succeeded, failures, ops, finished,
                   writes, store0>>

\* The call returns the keys in the order in which the chains finished.
BatchReturnAsCompleted ==
    /\ batch = "running"
    /\ \A c \in Chains : pc[c] = "done"
    /\ batch' = "returned"
    /\ ret' = finished
    /\ sessionOpen' = FALSE
    /\ UNCHANGED <<store, dirExists, tasks, force, ceiling, permits, clock, pc,
                   idx, mem, err, invoked, succeeded, failures, ops, finished,
                   writes, store0>>

\* tqdm's gather has collected every chain's key.  It awaits the chains with
\* as_completed and returns [i for _, i in sorted(res)], res holding
\* (index in the task set, key): the keys in task order, as asyncio.gather.
BatchReturn ==
    /\ batch = "running"
    /\ \A c \in Chains : pc[c] = "done"
    /\ batch' = "returned"
    /\ ret' = AllKeys(tasks)
    /\ sessionOpen' = FALSE
    /\ UNCHANGED <<store, dirExists, tasks, force, ceiling, permits, clock, pc,
                   idx, mem, err, invoked, succeeded, failures, ops, finished,
                   writes, store0>>

\* The call cancels every chain that has not ended when it raises.
BatchRaiseAborting ==
    /\ batch = "running"
    /\ \E c \in Chains : pc[c] = "raised"
    /\ batch' = "raised"
    /\ sessionOpen' = FALSE
    /\ pc' = [c \in ChainIds |-> IF pc[c] \in Terminal THEN pc[c] ELSE "cancelled"]
    /\ idx' = [c \in ChainIds |-> 0]
    /\ mem' = [c \in ChainIds |-> EmptyDict]
    /\ permits' = permits + Cardinality({c \in Chains : pc[c] \in {"await", "body"}})
    /\ UNCHANGED <<store, dirExists, tasks, force, ceiling, clock, ret, err,
                   invoked, succeeded, failures, ops, finished, writes, store0>>

\* gather meets the exception of a chain: it leaves execute_async.
BatchRaise ==
    /\ batch = "running"
    /\ \E c \in Chains : pc[c] = "raised"
    /\ batch' = "raised"
    /\ sessionOpen' = FALSE
    /\ UNCHANGED <<store, dirExists, tasks, force, ceiling, permits, clock, pc,
                   idx, mem, ret, err, invoked, succeeded, failures, ops, finished,
                   writes, store0>>

\* A cancelled call returns the keys of the chains that have finished.
CancelBatchPartial ==
    /\ batch = "running"
    /\ batch' = "cancelled"
    /\ ret' = finished
    /\ sessionOpen' = FALSE
    /\ UNCHANGED <<store, dirExists, tasks, force, ceiling, permits, clock, pc,
                   idx, mem, err, invoked, succeeded, failures, ops, finished,
                   writes, store0>>

\* The task running execute_async is cancelled: except CancelledError.
CancelBatch ==
    /\ batch = "running"
    /\ batch' = "cancelled"
    /\ sessionOpen' = FALSE
    /\ UNCHANGED <<store, dirExists, tasks, force, ceiling, permits, clock, pc,
                   idx, mem, ret, err, invoked, succeeded, failures, ops, finished,
                   writes, store0>>

\* The CancelledError leaves the chain wherever it reaches it: a chain in a
\* phase gives back the permit and ends without a write.
CancelChainPropagating(c) ==
    /\ c \in Chains
    /\ batch \in {"raised", "cancelled"}
    /\ \/ /\ pc[c] = "gate"
          /\ pc' = [pc EXCEPT ![c] = "cancelled"]
          /\ UNCHANGED <<permits, idx, mem>>
       \/ /\ pc[c] \in {"await", "body"}
          /\ pc' = [pc EXCEPT ![c] = "cancelled"]
          /\ permits' = permits + 1
          /\ mem' = [mem EXCEPT ![c] = EmptyDict]
          /\ idx' = [idx EXCEPT ![c] = 0]
    /\ UNCHANGED <<store, ops, failures, finished, writes>>
    /\ UNCHANGED <<dirExists, sessionOpen, batch, tasks, force, ceiling, clock,
                   ret, err, invoked, succeeded, store0>>

\* A chain still alive after the call has ended is cancelled (the event
\* loop shuts down).  At the gate the CancelledError leaves the chain; in
\* wait_for it is caught by line 149 and recorded as a TimeoutError.
CancelChain(c) ==
    /\ c \in Chains
    /\ batch \in {"raised", "cancelled"}
    /\ \/ /\ pc[c] = "gate"
          /\ pc' = [pc EXCEPT ![c] = "cancelled"]
          /\ UNCHANGED <<store, permits, idx, mem, ops, failures, finished, writes>>
       \/ /\ pc[c] \in {"await", "body"}
          /\ Leave(c, OnRecognized(mem[c], idx[c], "TimeoutError", Now), "done")
          /\ failures' = failures \cup {<<KeyOf(c), idx[c]>>}
    /\ UNCHANGED <<dirExists, sessionOpen, batch, tasks, force, ceiling, clock,
                   ret, err, invoked, succeeded, store0>>

\* The process dies: every chain and its memory is gone, the files stay.
Crash ==
    /\ \E c \in Chains : pc[c] \notin Terminal
    /\ batch' = "crashed"
    /\ sessionOpen' = FALSE
    /\ pc' = [c \in ChainIds |-> "idle"]
    /\ idx' = [c \in ChainIds |-> 0]
    /\ mem' = [c \in ChainIds |-> EmptyDict]
    /\ UNCHANGED <<store, dirExists, tasks, force, ceiling, permits, clock, ret,
                   err, invoked, succeeded, failures, ops, finished, writes, store0>>

\* The steps of the chains and of the call that runs them.
Run ==
    \/ \E c \in ChainIds : Acquire(c)
    \/ \E c \in ChainIds : Enter(c)
    \/ \E c \in ChainIds, r \in Results : BodySuccess(c, r)
    \/ \E c \in ChainIds, kind \in RecognizedKinds : BodyRecognized(c, kind)
    \/ \E c \in ChainIds : BodyUnrecognized(c)
    \/ \E c \in ChainIds : CancelChain(c)
    \/ BatchReturn
    \/ BatchRaise
    \/ CancelBatch
    \/ Crash

Accepted == {ts \in TaskSets : ValidationError(AllKeys(ts)) = NoError}

Rejected == TaskSets \ Accepted

\* Up to MaxRuns successive calls, each on the first key alone (with every
\* force directive and ceiling) or on a task set that is rejected.
Next ==
    \/ \E ts \in {t \in Accepted : Len(t) = 1}, frc \in ForceChoices,
          par \in 0..MaxParallelism :
          clock < MaxRuns /\ StartBatch(ts, frc, par)
    \/ \E ts \in Rejected : clock < MaxRuns /\ StartBatch(ts, NoForce, MaxParallelism)
    \/ Run

Spec == Init /\ [][Next]_vars

\* One call, on every task set of at most MaxTasks tasks.
NextBatch ==
    \/ \E ts \in Accepted, frc \in ForceChoices, par \in 0..MaxParallelism :
          batch = "none" /\ StartBatch(ts, frc, par)
    \/ \E ts \in Rejected : batch = "none" /\ StartBatch(ts, NoForce, MaxParallelism)
    \/ Run

SpecBatch == Init /\ [][NextBatch]_vars

\* ------------------------------------------------------------- reading the state
\* The chains that hold a permit, and those whose phase body is in flight.
Holders == {c \in Chains : pc[c] \in {"await", "body"}}

InFlight == {c \in Chains : pc[c] = "body"}

\* The record of key k in a store (the empty mapping when there is no file).
Record(st, k) == IF k \in DOMAIN st THEN st[k] ELSE EmptyDict

IsSuccess(rec, p) == Has(rec, StatusKey(p)) /\ rec[StatusKey(p)] = "SUCCESS"

IsError(rec, p) == Has(rec, StatusKey(p)) /\ rec[StatusKey(p)] # "SUCCESS"

AllSuccess(rec) == \A p \in Phases : IsSuccess(rec, p)

\* The fields <p>, <p>_status and <p>_last_run of a record.
PhaseFields(rec, p) ==
    [f \in {Name(p), StatusKey(p), LastRunKey(p)} \cap DOMAIN rec |-> rec[f]]

\* One step of chain c: it takes a free permit, its wrapper decides, or the
\* attempt it awaits ends (it returns, fails, or wait_for cuts it off).
ChainStep(c) ==
    \/ Acquire(c)
    \/ Enter(c)
    \/ \E r \in Results : BodySuccess(c, r)
    \/ \E kind \in RecognizedKinds : BodyRecognized(c, kind)
    \/ BodyUnrecognized(c)

\* One call under the event loop's scheduling: a chain that can step does
\* step, and gather resumes execute_async once it has its outcome.
SpecBatchFair ==
    /\ Init
    /\ [][NextBatch]_vars
    /\ \A c \in ChainIds : WF_vars(ChainStep(c))
    /\ WF_vars(BatchReturn \/ BatchRaise)

\* Up to MaxRuns successive calls on the first key, with every force
\* directive, in which a phase body may also return None: the record then
\* stores null as the phase's result.
NextWrapper ==
    \/ \E frc \in ForceChoices :
          clock < MaxRuns /\ StartBatch(<<Task(KeyPool[1], NoParams)>>, frc, MaxParallelism)
    \/ \E c \in ChainIds : BodySuccess(c, None)
    \/ Run

SpecWrapper == Init /\ [][NextWrapper]_vars

\* ------------------------------------------------------------- claims

\* C1: in every reachable state of a batch the number of chains that hold the
\* permit, and so the number of phase bodies in flight, is at most the
\* parallelism ceiling given to the batch; the other chains wait at the gate.
C1_ConcurrencyBound ==
    /\ Cardinality(Holders) <= ceiling
    /\ Cardinality(InFlight) <= ceiling
    /\ \A c \in Chains :
          (pc[c] = "gate" /\ permits = 0) => Cardinality(Holders) = ceiling

\* C1 witness: the ceiling is reached with a body in flight while another
\* task waits at the gate.
C1_Witness ==
    /\ ceiling >= 1
    /\ Cardinality(Holders) = ceiling
    /\ InFlight # {}
    /\ \E c \in Chains : pc[c] = "gate"

\* C2: every persisted status record has, for every phase p, <p>_status equal
\* to SUCCESS if and only if the result field <p> is present.
C2_StatusShape ==
    \A k \in DOMAIN store : \A p \in Phases :
        IsSuccess(store[k], p) <=> Has(store[k], Name(p))

\* C2 witness: after a forced run that failed, a record holds one phase in
\* error without its result next to a phase that is SUCCESS with its result.
C2_Witness ==
    \E k \in DOMAIN store : \E p, q \in Phases :
        /\ IsError(store[k], p) /\ ~Has(store[k], Name(p))
        /\ IsSuccess(store[k], q) /\ Has(store[k], Name(q))
        /\ p < q

\* The call ran without forcing on tasks that all have a record from an
\* earlier run, and has returned its list.
RerunReturned ==
    /\ batch = "returned"
    /\ force = NoForce
    /\ \A c \in Chains : KeyOf(c) \in DOMAIN store0

\* C3 as stated: after a second, unforced run of a task set no body of a phase
\* that was SUCCESS has been invoked and every task's record is identical to
\* the one the first run left.
C3_Original ==
    RerunReturned =>
        \A c \in Chains :
            /\ \A p \in Phases :
                  IsSuccess(store0[KeyOf(c)], p) => <<KeyOf(c), p>> \notin invoked
            /\ store[KeyOf(c)] = store0[KeyOf(c)]

\* C3 amended: in a second, unforced run no body of a phase that was SUCCESS
\* after the first run is invoked; when the run returns, the fields <p>,
\* <p>_status and <p>_last_run of each such phase are identical to those the
\* first run left, and the whole record of a task is identical when every
\* phase of it was SUCCESS after the first run.
C3_Idempotence ==
    (batch \in {"running", "returned"} /\ force = NoForce) =>
        \A c \in Chains : \A p \in Phases :
            IsSuccess(Record(store0, KeyOf(c)), p) =>
                /\ <<KeyOf(c), p>> \notin invoked
                /\ batch = "returned" =>
                      /\ PhaseFields(store[KeyOf(c)], p) = PhaseFields(store0[KeyOf(c)], p)
                      /\ AllSuccess(store0[KeyOf(c)]) => store[KeyOf(c)] = store0[KeyOf(c)]

\* C3 witness: an unforced second run has returned on a task whose phases
\* were all SUCCESS.
C3_Witness ==
    /\ RerunReturned
    /\ \E c \in Chains : AllSuccess(store0[KeyOf(c)]) /\ invoked = {}

\* C4 as stated: a phase whose stored status is an error is invoked again by
\* the next unforced run of the task, and the phases before it that are
\* SUCCESS are skipped.
C4_Original ==
    RerunReturned =>
        \A c \in Chains : \A p \in Phases :
            IsError(store0[KeyOf(c)], p) =>
                /\ <<KeyOf(c), p>> \in invoked
                /\ \A q \in 1..(p - 1) :
                      IsSuccess(store0[KeyOf(c)], q) => <<KeyOf(c), q>> \notin invoked

\* C4 amended: a phase p whose stored status is an error is invoked again by
\* the next unforced run of the task unless a phase before p ends in a
\* recognized failure in that run (the chain then stops before p); it is
\* invoked whenever every phase before p is SUCCESS in the record, and the
\* phases before p that are SUCCESS in the record are skipped.
C4_RetryFailed ==
    RerunReturned =>
        \A c \in Chains : \A p \in Phases :
            IsError(store0[KeyOf(c)], p) =>
                /\ \/ <<KeyOf(c), p>> \in invoked
                   \/ \E q \in 1..(p - 1) : <<KeyOf(c), q>> \in failures
                /\ (\A q \in 1..(p - 1) : IsSuccess(store0[KeyOf(c)], q)) =>
                      <<KeyOf(c), p>> \in invoked
                /\ \A q \in 1..(p - 1) :
                      IsSuccess(store0[KeyOf(c)], q) => <<KeyOf(c), q>> \notin invoked

\* C4 witness: an unforced run has returned after it skipped a SUCCESS phase
\* and invoked again the phase after it, whose stored status was an error.
C4_Witness ==
    /\ RerunReturned
    /\ \E c \in Chains : \E p \in Phases : \E q \in 1..(p - 1) :
          /\ IsError(store0[KeyOf(c)], p)
          /\ IsSuccess(store0[KeyOf(c)], q)
          /\ <<KeyOf(c), p>> \in invoked
          /\ <<KeyOf(c), q>> \notin invoked

\* The call forces exactly phase P on a task whose record had every phase
\* SUCCESS, and no cancellation has reached it.
ForcedOn(P, c) ==
    /\ batch \in {"running", "returned"}
    /\ force = ForceOnly(P)
    /\ c \in Chains
    /\ AllSuccess(Record(store0, KeyOf(c)))

\* C5: in a run that forces {P} on a task with every phase SUCCESS, P's body
\* is invoked, no phase before P is invoked, and the <q>, <q>_status and
\* <q>_last_run fields of every phase q before P stay as they were.
C5_ForcingFrame ==
    \A P \in Phases : \A c \in ChainIds :
        ForcedOn(P, c) =>
            /\ batch = "returned" => <<KeyOf(c), P>> \in invoked
            /\ \A q \in 1..(P - 1) :
                  /\ <<KeyOf(c), q>> \notin invoked
                  /\ PhaseFields(store[KeyOf(c)], q) = PhaseFields(store0[KeyOf(c)], q)

\* C5 witness: a run that forced the last phase has returned, with the forced
\* phase invoked.
C5_Witness ==
    \E c \in ChainIds :
        /\ ForcedOn(NumPhases, c)
        /\ batch = "returned"
        /\ <<KeyOf(c), NumPhases>> \in invoked

\* C6 as stated: in a run that forces {P} on a task with every phase SUCCESS,
\* every phase after P is invoked again too.
C6_Original ==
    \A P \in Phases : \A c \in ChainIds :
        (ForcedOn(P, c) /\ batch = "returned" /\ failures = {}) =>
            \A q \in (P + 1)..NumPhases : <<KeyOf(c), q>> \in invoked

\* C6 amended: forcing does not propagate downstream.  In a run that forces
\* {P} on a task with every phase SUCCESS, no phase after P is invoked: each
\* is skipped (or not reached when P fails) and its <q>, <q>_status and
\* <q>_last_run fields stay as they were.
C6_NoDownstreamForcing ==
    \A P \in Phases : \A c \in ChainIds :
        ForcedOn(P, c) =>
            \A q \in (P + 1)..NumPhases :
                /\ <<KeyOf(c), q>> \notin invoked
                /\ PhaseFields(store[KeyOf(c)], q) = PhaseFields(store0[KeyOf(c)], q)

\* C6 witness: a run that forced the first phase has returned with that phase
\* invoked, successful, and the phase after it not invoked.
C6_Witness ==
    \E c \in ChainIds :
        /\ ForcedOn(1, c)
        /\ batch = "returned"
        /\ <<KeyOf(c), 1>> \in succeeded
        /\ <<KeyOf(c), 2>> \notin invoked

\* C7: in one batch with tasks A and B, when A's chain has ended in a
\* recognized failure, B's chain is not blocked at the gate by A, B's record
\* is written by B's chain alone and shows B's own outcomes, and when B's
\* bodies all succeed every phase of B has run and B's record has every phase
\* SUCCESS; in every interleaving and for every ceiling of at least 1.
C7_FailureIsolation ==
    batch \in {"running", "returned"} =>
        \A a, b \in Chains :
            (a # b /\ pc[a] = "done" /\ \E p \in Phases : <<KeyOf(a), p>> \in failures) =>
                /\ (pc[b] = "gate" /\ ceiling >= 1) =>
                      (permits > 0 \/ \E c \in Chains \ {a} : pc[c] \in {"await", "body"})
                /\ pc[b] \in {"gate", "await", "body"} => KeyOf(b) \notin DOMAIN store
                /\ pc[b] = "done" =>
                      /\ KeyOf(b) \in DOMAIN store
                      /\ \A p \in Phases :
                            IsError(store[KeyOf(b)], p) <=> <<KeyOf(b), p>> \in failures
                      /\ (\A p \in Phases : <<KeyOf(b), p>> \notin failures) =>
                            /\ \A p \in Phases : <<KeyOf(b), p>> \in succeeded
                            /\ AllSuccess(store[KeyOf(b)])

\* C7 witness: A failed at its second phase and B has completed every phase,
\* under a ceiling of 1.
C7_Witness ==
    /\ batch = "returned"
    /\ ceiling = 1
    /\ \E a, b \in Chains :
          /\ a # b
          /\ <<KeyOf(a), 2>> \in failures
          /\ AllSuccess(store[KeyOf(b)])
          /\ \A p \in Phases : <<KeyOf(b), p>> \in succeeded

\* C8 as stated: once a phase of a task has completed successfully in the
\* current run, the store holds a record showing that phase as SUCCESS.
C8_Original ==
    \A c \in Chains : \A p \in Phases :
        <<KeyOf(c), p>> \in succeeded => IsSuccess(Record(store, KeyOf(c)), p)

\* C8 amended: the chain persists the record when it ends, not after every
\* phase.  A phase completed in this run is SUCCESS in the store once its
\* chain has written and left; until then it lives in the chain's memory, and
\* a process crash during a following phase loses it: the store then still
\* holds the task's record as it was when the call began.
C8_CrashLosesProgress ==
    [][/\ (batch' = "crashed" /\ batch # "crashed") =>
              \A c \in Chains :
                  pc[c] \in {"await", "body"} =>
                      Record(store', KeyOf(c)) = Record(store0, KeyOf(c))
       /\ \A c \in Chains :
              (pc[c] \in {"await", "body"} /\ pc'[c] \in {"done", "raised"}) =>
                  \A p \in Phases :
                      <<KeyOf(c), p>> \in succeeded' => IsSuccess(store'[KeyOf(c)], p)
      ]_vars

\* C8 witness: the process has crashed after a phase completed successfully,
\* and the store does not show that phase as SUCCESS.
C8_Witness ==
    /\ batch = "crashed"
    /\ \E c \in Chains : \E p \in Phases :
          /\ <<KeyOf(c), p>> \in succeeded
          /\ ~IsSuccess(Record(store, KeyOf(c)), p)

\* The keys that occur more than once in the task set of the call.
Repeated == {k \in {tasks[i].key : i \in 1..Len(tasks)} :
                Cardinality({i \in 1..Len(tasks) : tasks[i].key = k}) > 1}

\* A key of the task set is ".", ".." or contains "/".
SomeKeyUnsafe ==
    \E i \in 1..Len(tasks) :
        \/ tasks[i].key \in {<<".">>, <<".", ".">>}
        \/ \E j \in 1..Len(tasks[i].key) : tasks[i].key[j] = "/"

\* C9: a call whose task set repeats a key or holds a key ".", ".." or with
\* "/" raises a validation error (and no other call does); in that call the
\* directory is not created, no session is opened, no status record is read or
\* written, no permit is acquired and no body is invoked; the duplicate-key
\* error names the repeated keys.
C9_ValidationFailFast ==
    /\ batch # "none" => (batch = "invalid" <=> (Repeated # {} \/ SomeKeyUnsafe))
    /\ batch = "invalid" =>
          /\ ops = {}
          /\ invoked = {}
          /\ store = store0
          /\ ~sessionOpen
          /\ clock = 1 => ~dirExists
          /\ \A c \in ChainIds : pc[c] = "idle"
          /\ IF Repeated # {}
             THEN /\ err.msg = "Duplicate keys"
                  /\ {err.keys[i] : i \in 1..Len(err.keys)} = Repeated
             ELSE /\ err.msg = "Invalid key"
                  /\ \E i \in 1..Len(tasks) : err.keys = <<tasks[i].key>>

\* C9 witness: a call with a repeated key is rejected while the store holds
\* the records of an earlier call.
C9_Witness ==
    /\ batch = "invalid"
    /\ err.msg = "Duplicate keys"
    /\ store # EmptyDict

\* C10: whenever the call returns a list, the list holds every key of the task
\* set exactly once, failed tasks included, and at that moment every chain has
\* written its record and released its permit.
C10_FullList ==
    /\ batch # "returned" => ret = <<>>
    /\ batch = "returned" =>
          /\ Len(ret) = Len(tasks)
          /\ permits = ceiling
          /\ "write" \in ops
          /\ \A c \in Chains :
                /\ Cardinality({i \in 1..Len(ret) : ret[i] = KeyOf(c)}) = 1
                /\ pc[c] = "done"
                /\ KeyOf(c) \in DOMAIN store

\* C10 witness: the call has returned the keys of a full task set in which
\* one task ended in a recognized failure.
C10_Witness ==
    /\ batch = "returned"
    /\ Len(ret) = MaxTasks
    /\ \E i \in 1..Len(ret) : \E p \in Phases : <<ret[i], p>> \in failures

\* C11 as stated: the returned list is in completion order, a chain that
\* finished before another one has its key before the other's.
C11_Original ==
    batch = "returned" => ret = finished

\* C11 amended: the returned list is in task-set order, whatever the order
\* in which the chains finished; every chain has finished exactly once.
C11_TaskSetOrder ==
    batch = "returned" =>
        /\ ret = AllKeys(tasks)
        /\ Len(finished) = Len(tasks)
        /\ \A c \in Chains : \E i \in 1..Len(finished) : finished[i] = KeyOf(c)

\* Two chains, the second of the task set finished first, the call returned.
C11_Witness ==
    /\ batch = "returned"
    /\ Len(tasks) = 2
    /\ finished = <<KeyOf(2), KeyOf(1)>>
    /\ ret = <<KeyOf(1), KeyOf(2)>>

\* C12: when a phase body raises an unrecognized failure the chain records
\* nothing about it: it writes the record as it stands in memory (the phases
\* completed earlier in this run as SUCCESS, every other phase's fields,
\* those of the failing phase included, as they were loaded) and raises; the
\* call then returns no list, and it ends by raising unless it is cancelled
\* from outside before it has met the failure.
C12_UnrecognizedFailure ==
    \A c \in Chains :
        pc[c] = "raised" =>
            LET k == KeyOf(c)
                loaded == LoadStatus(store0, k, tasks[c].params)
                rec == Record(store, k)
            IN  /\ batch \in {"running", "raised", "cancelled"}
                /\ ret = <<>>
                /\ err = NoError
                /\ writes[c] = 1
                /\ rec.params = loaded.params
                /\ \A p \in Phases :
                       /\ <<k, p>> \notin failures
                       /\ IF <<k, p>> \in succeeded
                          THEN /\ IsSuccess(rec, p)
                               /\ Has(rec, Name(p))
                               /\ rec[LastRunKey(p)] = clock
                          ELSE PhaseFields(rec, p) = PhaseFields(loaded, p)

\* C12 witness: the call has raised; the first phase was run again and
\* succeeded, the forced second phase failed unrecognized, and the store
\* shows the first phase's new result and the second phase's old SUCCESS.
C12_Witness ==
    /\ batch = "raised"
    /\ \E c \in Chains :
          /\ pc[c] = "raised"
          /\ <<KeyOf(c), 1>> \in succeeded
          /\ <<KeyOf(c), 2>> \in invoked
          /\ IsSuccess(Record(store0, KeyOf(c)), 2)
          /\ IsSuccess(Record(store, KeyOf(c)), 2)
          /\ Record(store, KeyOf(c))[LastRunKey(1)] = clock
          /\ Record(store, KeyOf(c))[LastRunKey(2)] < clock

\* C13 as stated: once the call has raised, no chain invokes a further phase
\* body or writes its status record.
C13_Original ==
    [][batch = "raised" => (invoked' = invoked /\ store' = store /\ writes' = writes)]_vars

\* C13 amended: the call aborts no chain when it raises: the step that
\* raises leaves every chain where it is, holding what it holds.  The chains
\* live on: afterwards a chain changes no record but its own, with the one
\* write of its run, and a chain cancelled at the gate ends without having
\* invoked a body or written.
C13_ChainsOutliveRaise ==
    [][/\ (batch = "running" /\ batch' = "raised") =>
              (pc' = pc /\ mem' = mem /\ idx' = idx /\ permits' = permits /\ store' = store)
       /\ batch = "raised" =>
              \A c \in Chains :
                  /\ Record(store', KeyOf(c)) # Record(store, KeyOf(c)) =>
                         (pc[c] \in {"await", "body"} /\ pc'[c] \in {"done", "raised"}
                              /\ writes'[c] = 1)
                  /\ pc'[c] = "cancelled" =>
                         (writes'[c] = 0 /\ \A p \in Phases : <<KeyOf(c), p>> \notin invoked')
      ]_vars

\* C13 witness: the call has raised on the failure of one chain and closed
\* the session, while another chain is in the body of its last phase.
C13_Witness ==
    /\ batch = "raised"
    /\ ~sessionOpen
    /\ \E c \in Chains : pc[c] = "raised"
    /\ \E c \in Chains : pc[c] = "body" /\ idx[c] = NumPhases

\* C14 as stated: a cancelled call returns no list, and from the cancellation
\* on every record that is in the store stays as it is.
C14_Original ==
    [][batch = "cancelled" =>
           /\ ret' = <<>>
           /\ \A k \in DOMAIN store : Record(store', k) = store[k]
      ]_vars

\* C14 amended: a cancelled call returns no list and the cancellation itself
\* writes nothing; afterwards the record of a task whose chain has ended
\* or waits at the gate stays as it is, while a chain that is in flight is
\* not stopped: it replaces its task's record with the one write of its run.
C14_CancelledBatch ==
    [][/\ (batch = "running" /\ batch' = "cancelled") =>
              (ret' = <<>> /\ store' = store /\ pc' = pc)
       /\ (batch = "cancelled" /\ batch' = "cancelled") =>
              /\ ret' = <<>>
              /\ \A c \in Chains :
                     Record(store', KeyOf(c)) # Record(store, KeyOf(c)) =>
                         (pc[c] \in {"await", "body"} /\ pc'[c] \in {"done", "raised"}
                              /\ writes'[c] = 1)
      ]_vars

\* C14 witness: the call was cancelled while the chain of a task with a
\* persisted record was in flight; the chain has ended since, and the record
\* has lost the result it held when the call began.
C14_Witness ==
    /\ batch = "cancelled"
    /\ ret = <<>>
    /\ \E c \in Chains : \E p \in Phases :
          /\ pc[c] = "done"
          /\ <<KeyOf(c), p>> \in failures
          /\ Has(Record(store0, KeyOf(c)), Name(p))
          /\ ~Has(Record(store, KeyOf(c)), Name(p))

\* C15 as stated: under fair scheduling every call that the entry point has
\* accepted ends (it returns, raises or returns the sentinel), and no chain
\* of a running call waits at the gate forever.
C15_Original ==
    /\ (batch = "running") ~> (batch # "running")
    /\ \A c \in ChainIds :
           (batch = "running" /\ pc[c] = "gate") ~> (batch # "running" \/ pc[c] # "gate")

\* C15 for the calls with a ceiling of at least one: the same two properties.
C15_PositiveCeiling ==
    /\ (batch = "running" /\ ceiling >= 1) ~> (batch # "running")
    /\ \A c \in ChainIds :
           (batch = "running" /\ ceiling >= 1 /\ pc[c] = "gate") ~>
               (batch # "running" \/ pc[c] # "gate")

\* C16: a recognized failure of phase p is not re-raised: the chain has
\* returned normally with its record written once, in which <p>_status is
\* "ERROR <Kind>::<message>", <p>_last_run is the time of this run and <p>
\* is absent; no later phase has been invoked in this run, and the list the
\* call returns holds the task's key.
C16_RecognizedFailure ==
    \A c \in Chains : \A p \in Phases :
        (<<KeyOf(c), p>> \in failures /\ batch # "crashed") =>
            LET rec == Record(store, KeyOf(c))
            IN  /\ pc[c] = "done"
                /\ writes[c] = 1
                /\ Has(rec, StatusKey(p))
                /\ rec[StatusKey(p)] \in {ErrorStatus(kind) : kind \in RecognizedKinds}
                /\ Has(rec, LastRunKey(p))
                /\ rec[LastRunKey(p)] = clock
                /\ ~Has(rec, Name(p))
                /\ \A q \in Phases : q > p => <<KeyOf(c), q>> \notin invoked
                /\ batch = "returned" => \E i \in 1..Len(ret) : ret[i] = KeyOf(c)

\* C16 witness: the forced first phase, which had a stored result, has failed
\* with a recognized exception and the call has returned the key.
C16_Witness ==
    /\ batch = "returned"
    /\ \E c \in Chains :
          /\ <<KeyOf(c), 1>> \in failures
          /\ Has(Record(store0, KeyOf(c)), Name(1))
          /\ ~Has(Record(store, KeyOf(c)), Name(1))
          /\ ret = <<KeyOf(c)>>

\* Whether the wrapper of phase p has been reached by chain c in this call.
Reached(c, p) ==
    \/ idx[c] > p
    \/ idx[c] = p /\ pc[c] = "body"
    \/ pc[c] = "done" /\ \A q \in Phases : <<KeyOf(c), q>> \notin failures

\* The claim's condition for invoking the body of p on the record the chain
\* loaded: the name of p is absent from it, or p is forced.
MustRun(c, p) ==
    \/ ~Has(Record(store0, KeyOf(c)), Name(p))
    \/ force.all
    \/ Name(p) \in force.names

\* C17 as stated: the wrapper of p invokes the body if and only if p's name
\* is absent from the record or p is forced; otherwise, whatever the stored
\* result is, the phase is skipped and its fields stay as they were loaded.
C17_Original ==
    \A c \in Chains : \A p \in Phases :
        /\ <<KeyOf(c), p>> \in invoked => MustRun(c, p)
        /\ (Reached(c, p) /\ MustRun(c, p)) => <<KeyOf(c), p>> \in invoked
        /\ (Reached(c, p) /\ ~MustRun(c, p)) =>
               PhaseFields(Record(store, KeyOf(c)), p)
                   = PhaseFields(Record(store0, KeyOf(c)), p)

\* C17 but for a stored None: the body is invoked if and only if p's name is
\* absent from the record, p is forced, or the stored result is None.
C17_ExceptStoredNone ==
    \A c \in Chains : \A p \in Phases :
        LET loaded == Record(store0, KeyOf(c))
            must == MustRun(c, p) \/ (Has(loaded, Name(p)) /\ loaded[Name(p)] = None)
        IN  /\ <<KeyOf(c), p>> \in invoked => must
            /\ (Reached(c, p) /\ must) => <<KeyOf(c), p>> \in invoked
            /\ (Reached(c, p) /\ ~must) =>
                   PhaseFields(Record(store, KeyOf(c)), p) = PhaseFields(loaded, p)

\* C18: permits never leak.  The free permits and the chains inside the gate
\* add up to the ceiling, so with no chain inside every permit is free; a
\* chain is inside the gate from before it loads its record until after its
\* write: outside it has no record in memory, and it has written if and only
\* if it has left by returning or raising.
C18_NoPermitLeak ==
    batch \in {"running", "returned", "raised", "cancelled"} =>
        /\ permits >= 0
        /\ permits + Cardinality(Holders) = ceiling
        /\ Holders = {} => permits = ceiling
        /\ \A c \in Chains :
               /\ c \notin Holders => mem[c] = EmptyDict
               /\ c \in Holders => (mem[c] # EmptyDict /\ writes[c] = 0)
               /\ pc[c] \in {"gate", "cancelled"} => writes[c] = 0
               /\ pc[c] \in {"done", "raised"} => writes[c] = 1

\* C18 witness: both chains of a call with a positive ceiling have left the
\* gate, one by raising and one on a recognized failure, and every permit is
\* free again.
C18_Witness ==
    /\ batch = "raised"
    /\ ceiling >= 1
    /\ Holders = {}
    /\ permits = ceiling
    /\ \E c \in Chains : pc[c] = "raised"
    /\ \E c \in Chains : pc[c] = "done" /\ \E p \in Phases : <<KeyOf(c), p>> \in failures

\* C19: a chain run writes the store exactly once, when it ends (after the
\* loop or on an unrecognized failure), never between phases: while the chain
\* is inside the gate it has not written and the store holds its task's
\* record as it was loaded, whatever has completed in memory; once it has
\* returned or raised it has written once.
C19_SingleWrite ==
    \A c \in Chains :
        /\ writes[c] <= 1
        /\ pc[c] \in {"gate", "await", "body"} =>
               /\ writes[c] = 0
               /\ Record(store, KeyOf(c)) = Record(store0, KeyOf(c))
        /\ pc[c] \in {"done", "raised"} =>
               /\ writes[c] = 1
               /\ KeyOf(c) \in DOMAIN store

\* C19 witness: the chain of a task with a persisted record is in the body of
\* its last phase after an earlier phase succeeded in this run; the store
\* still holds the record as loaded, which differs from the one in memory.
C19_Witness ==
    \E c \in Chains :
        /\ pc[c] = "body"
        /\ idx[c] = NumPhases
        /\ <<KeyOf(c), 1>> \in succeeded
        /\ KeyOf(c) \in DOMAIN store0
        /\ store[KeyOf(c)] = store0[KeyOf(c)]
        /\ mem[c] # store[KeyOf(c)]
        /\ writes[c] = 0

\* The time stamp and the result of phase p in a record.
RunFields(rec, p) ==
    [f \in {Name(p), LastRunKey(p)} \cap DOMAIN rec |-> rec[f]]

\* C20: <p>_last_run is written only when the attempt of p in this run ended
\* in a success of its body or in a recognized failure, and then with the
\* time of this run; a phase the wrapper skipped keeps <p>_last_run and <p>
\* exactly as they were loaded, in memory and in the record written.
C20_LastRun ==
    \A c \in Chains : \A p \in Phases :
        LET k == KeyOf(c)
            loaded == Record(store0, k)
            rec == Record(store, k)
            ran == <<k, p>> \in succeeded \cup failures
        IN  /\ RunFields(rec, p) # RunFields(loaded, p) => ran
            /\ (ran /\ pc[c] \in {"done", "raised"}) =>
                   (Has(rec, LastRunKey(p)) /\ rec[LastRunKey(p)] = clock)
            /\ (Reached(c, p) /\ <<k, p>> \notin invoked) =>
                   /\ RunFields(rec, p) = RunFields(loaded, p)
                   /\ pc[c] \in {"await", "body"} =>
                          RunFields(mem[c], p) = RunFields(loaded, p)

\* C20 witness: the call has returned; the first phase was skipped and has
\* the time stamp of an earlier run, the second was executed in this run.
C20_Witness ==
    /\ batch = "returned"
    /\ \E c \in Chains :
          LET rec == Record(store, KeyOf(c))
          IN  /\ <<KeyOf(c), 1>> \notin invoked
              /\ <<KeyOf(c), 2>> \in succeeded
              /\ Has(rec, LastRunKey(1))
              /\ rec[LastRunKey(1)] < clock
              /\ rec[LastRunKey(1)] = Record(store0, KeyOf(c))[LastRunKey(1)]
              /\ rec[LastRunKey(2)] = clock

\* C21: params is set once.  For a task that had a record when the call
\* began, the record in the chain's memory and the record in the store keep
\* the params of that record, whatever params the call supplies; for a task
\* that had none, the record written carries the params of the call (the
\* empty mapping for a bare list of keys).
C21_ParamsSetOnce ==
    \A c \in Chains :
        LET k == KeyOf(c)
        IN  /\ k \in DOMAIN store0 =>
                   /\ k \in DOMAIN store
                   /\ Has(store[k], "params")
                   /\ store[k].params = store0[k].params
                   /\ pc[c] \in {"await", "body"} => mem[c].params = store0[k].params
            /\ (k \notin DOMAIN store0 /\ batch # "invalid") =>
                   /\ k \in DOMAIN store => store[k].params = tasks[c].params
                   /\ pc[c] \in {"await", "body"} => mem[c].params = tasks[c].params

\* C21 witness: a call that supplied params other than those of the stored
\* record has returned, its chain has written, and the record has the
\* params it had.
C21_Witness ==
    /\ batch = "returned"
    /\ \E c \in Chains :
          /\ KeyOf(c) \in DOMAIN store0
          /\ writes[c] = 1
          /\ tasks[c].params # store0[KeyOf(c)].params
          /\ store[KeyOf(c)].params = store0[KeyOf(c)].params

\* C22: a cancellation is absorbed by a chain that awaits a phase and
\* propagates only out of a chain at the gate.  A chain ends as cancelled
\* only from the gate, and then nothing is written, invoked or released.  A
\* chain awaiting phase p whose attempt is cut off leaves by returning: in
\* the one record it writes <p>_status is an ERROR status (ERROR
\* TimeoutError:: when the body had not started, which only a cancellation
\* does), <p>_last_run is the time of the run, <p> is absent and every other
\* field is as in memory; its key is among the keys returned, and it invokes
\* nothing afterwards.
C22_CancellationAbsorbed ==
    [][\A c \in Chains :
           LET k == KeyOf(c)
               p == idx[c]
           IN  /\ pc'[c] = "cancelled" => pc[c] \in {"gate", "cancelled"}
               /\ (pc[c] = "gate" /\ pc'[c] = "cancelled") =>
                      /\ store' = store
                      /\ writes' = writes
                      /\ invoked' = invoked
                      /\ permits' = permits
                      /\ finished' = finished
               /\ (pc[c] \in {"await", "body"} /\ <<k, p>> \in failures' \ failures) =>
                      /\ pc'[c] = "done"
                      /\ writes'[c] = 1
                      /\ finished' = Append(finished, k)
                      /\ invoked' = invoked
                      /\ permits' = permits + 1
                      /\ IsError(store'[k], p)
                      /\ pc[c] = "await" => store'[k][StatusKey(p)] = ErrorStatus("TimeoutError")
                      /\ store'[k][LastRunKey(p)] = clock
                      /\ ~Has(store'[k], Name(p))
                      /\ \A f \in (DOMAIN mem[c]) \ {Name(p), StatusKey(p), LastRunKey(p)} :
                             Has(store'[k], f) /\ store'[k][f] = mem[c][f]
      ]_vars

\* C22 witness: the call was cancelled and then its chain, while it awaited
\* a forced phase whose body had not started; the chain has returned, and
\* the record shows the phase as a timeout failure without the result it
\* had.
C22_Witness ==
    /\ batch = "cancelled"
    /\ \E c \in Chains : \E p \in Phases :
          /\ pc[c] = "done"
          /\ finished = <<KeyOf(c)>>
          /\ <<KeyOf(c), p>> \in failures
          /\ <<KeyOf(c), p>> \notin invoked
          /\ p > 1
          /\ <<KeyOf(c), 1>> \in succeeded
          /\ Has(Record(store0, KeyOf(c)), Name(p))
          /\ ~Has(Record(store, KeyOf(c)), Name(p))
          /\ Record(store, KeyOf(c))[StatusKey(p)] = ErrorStatus("TimeoutError")

\* C23: when a chain has stopped at phase p on a recognized failure, the
\* record it wrote holds the fields of every phase q after p exactly as
\* they were loaded.  In an unforced run that loads a record in which p is
\* an error and a later phase q is SUCCESS, the body of q is not invoked, p
\* is invoked when the chain reaches it, and q keeps its fields as loaded
\* unless the await of q is itself cut off.
C23_LaterPhasesKept ==
    \A c \in Chains : \A p \in Phases : \A q \in Phases :
        q > p =>
            LET k == KeyOf(c)
                loaded == Record(store0, k)
                rec == Record(store, k)
            IN  /\ <<k, p>> \in failures =>
                       PhaseFields(rec, q) = PhaseFields(loaded, q)
                /\ (force = NoForce /\ batch # "invalid"
                        /\ IsError(loaded, p) /\ IsSuccess(loaded, q)) =>
                       /\ <<k, q>> \notin invoked
                       /\ Reached(c, p) => <<k, p>> \in invoked
                       /\ <<k, q>> \notin failures =>
                              PhaseFields(rec, q) = PhaseFields(loaded, q)

\* C23 witness: an unforced run has returned on a record in which the first
\* phase was an error and the second SUCCESS; the first phase was retried
\* and succeeded, the second was skipped and has its old result and time.
C23_Witness ==
    /\ batch = "returned"
    /\ force = NoForce
    /\ \E c \in Chains :
          LET loaded == Record(store0, KeyOf(c))
              rec == Record(store, KeyOf(c))
          IN  /\ IsError(loaded, 1)
              /\ IsSuccess(loaded, 2)
              /\ <<KeyOf(c), 1>> \in succeeded
              /\ <<KeyOf(c), 2>> \notin invoked
              /\ IsSuccess(rec, 2)
              /\ PhaseFields(rec, 2) = PhaseFields(loaded, 2)
              /\ rec[LastRunKey(2)] < loaded[LastRunKey(1)]

====
